---- MODULE Spec2Model ----
(***************************************************************************)
(* A model of GenChinaFestivalCal.py: the date computations (solar-term    *)
(* formula, n-th weekday of a month, lunar festival table), the event      *)
(* aggregation of collect_all_events and the identifier assignment of      *)
(* build_ics.                                                              *)
(*                                                                         *)
(* Conventions.  A datetime.date is the tuple <<year, month, day>>; Python *)
(* compares dates as these tuples.  An event is the tuple                  *)
(* <<name, date, category>> of the source.  A raised exception is the      *)
(* one-element tuple <<"ValueError">> or <<"ZhError">> and None is the     *)
(* empty tuple, so that a date is told from them by its length.  Festival  *)
(* names are written in pinyin (the module is ASCII); CodePoints gives the *)
(* code points of the source's string, which is what Python's string       *)
(* comparison reads.                                                       *)
(***************************************************************************)
EXTENDS Integers, Sequences, FiniteSets, TLC

VARIABLES
    pc,          \* position of the run: which call has been made
    year,        \* argument of build_jieqi_based_festivals
    term_out,    \* what the solar-term functions returned for year
    nth_in,      \* arguments of nth_weekday_of_month
    nth_out,     \* its result (a date, or ValueError)
    start_date,  \* collect_all_events: start_date
    end_date,    \* collect_all_events: end_date
    zh,          \* the zhdate converter: accepted lunar date -> civil date
    run,         \* what collect_all_events did and returned
    ics          \* the VEVENT blocks build_ics appended

vars == <<pc, year, term_out, nth_in, nth_out, start_date, end_date, zh, run, ics>>

---------------------------------------------------------------------------
(* Python values *)

None == <<>>
ValueError == <<"ValueError">>
ZhError == <<"ZhError">>

IsDate(r) == Len(r) = 3

\* range(a, b): a, a+1, ..., b-1
range(a, b) == [i \in 1..(IF b > a THEN b - a ELSE 0) |-> a + i - 1]

\* a < b for sequences of integers of any lengths (the order of Python's
\* strings, read as their code points)
RECURSIVE SeqLess(_, _)
SeqLess(a, b) ==
    IF b = <<>> THEN FALSE
    ELSE IF a = <<>> THEN TRUE
    ELSE IF Head(a) /= Head(b) THEN Head(a) < Head(b)
    ELSE SeqLess(Tail(a), Tail(b))

---------------------------------------------------------------------------
(* datetime.date *)

IsLeap(y) == (y % 4 = 0) /\ ((y % 100 /= 0) \/ (y % 400 = 0))

DaysInMonth(y, m) ==
    IF m = 2 THEN (IF IsLeap(y) THEN 29 ELSE 28)
    ELSE IF m \in {4, 6, 9, 11} THEN 30 ELSE 31

\* date(year, month, day): the date, or ValueError when it does not exist
\* (datetime.MINYEAR is 1 and datetime.MAXYEAR is 9999)
date(y, m, d) ==
    IF /\ 1 <= y /\ y <= 9999
       /\ 1 <= m /\ m <= 12
       /\ 1 <= d /\ d <= DaysInMonth(y, m)
    THEN <<y, m, d>>
    ELSE ValueError

RECURSIVE DaysBeforeMonth(_, _)
DaysBeforeMonth(y, m) ==
    IF m = 1 THEN 0 ELSE DaysBeforeMonth(y, m - 1) + DaysInMonth(y, m - 1)

\* date.toordinal(): 1 for 0001-01-01
toordinal(dt) ==
    LET y1 == dt[1] - 1
    IN  y1 * 365 + (y1 \div 4) - (y1 \div 100) + (y1 \div 400)
        + DaysBeforeMonth(dt[1], dt[2]) + dt[3]

\* date.weekday(): Monday = 0 ... Sunday = 6
weekday(dt) == (toordinal(dt) + 6) % 7

\* d1 < d2 on dates: the order of (year, month, day)
DateLess(d1, d2) ==
    \/ d1[1] < d2[1]
    \/ d1[1] = d2[1] /\ d1[2] < d2[2]
    \/ d1[1] = d2[1] /\ d1[2] = d2[2] /\ d1[3] < d2[3]

\* d1 <= d2 on dates
DateLE(d1, d2) == d1 = d2 \/ DateLess(d1, d2)

---------------------------------------------------------------------------
(* nth_weekday_of_month *)

NthDay(y, month, wd, n) ==
    LET first == date(y, month, 1)
        shift == (wd - weekday(first) + 7) % 7
    IN  1 + shift + (n - 1) * 7

\* Variant: the day counted on into the next month (first + timedelta)
nth_weekday_of_month_anyday(y, month, wd, n) ==
    LET day == NthDay(y, month, wd, n)
    IN  IF day <= DaysInMonth(y, month) THEN date(y, month, day)
        ELSE IF month < 12 THEN date(y, month + 1, day - DaysInMonth(y, month))
        ELSE date(y + 1, 1, day - DaysInMonth(y, month))

nth_weekday_of_month(y, month, wd, n) ==
    date(y, month, NthDay(y, month, wd, n))

---------------------------------------------------------------------------
(* the solar-term formula *)

\* The three constants C, times 10000
C_QINGMING == 48100
C_SUMMER == 213700
C_WINTER == 219400

\* floor(Y * 0.2422 + C) - floor(Y / 4), Y = year % 100.  The product and the
\* sum are taken in ten-thousandths; for Y in 0..99 and the three constants
\* the exact value is never an integer, and the double-precision value of
\* the source has the same floor.
_century21_solar_term_day(y, C) ==
    LET Y == y % 100
    IN  ((Y * 2422 + C) \div 10000) - (Y \div 4)

\* Variant: the window without its first year
get_qingming_date_lower(y) ==
    IF ~(2001 < y /\ y <= 2100) THEN None
    ELSE date(y, 4, _century21_solar_term_day(y, C_QINGMING))

get_qingming_date(y) ==
    IF ~(2001 <= y /\ y <= 2100) THEN None
    ELSE date(y, 4, _century21_solar_term_day(y, C_QINGMING))

\* Variant: without the correction of 2021
get_solstice_dates_nofix(y) ==
    IF ~(2001 <= y /\ y <= 2100) THEN <<>>
    ELSE LET day_summer == _century21_solar_term_day(y, C_SUMMER)
             day_winter == _century21_solar_term_day(y, C_WINTER)
         IN  [k \in {"XiaZhi", "DongZhi"} |->
                 IF k = "XiaZhi" THEN date(y, 6, day_summer)
                 ELSE date(y, 12, day_winter)]

\* The mapping {"XiaZhi": ..., "DongZhi": ...}, or the empty mapping
get_solstice_dates(y) ==
    IF ~(2001 <= y /\ y <= 2100) THEN <<>>
    ELSE LET day_summer == _century21_solar_term_day(y, C_SUMMER)
             day_winter0 == _century21_solar_term_day(y, C_WINTER)
             day_winter == IF y = 2021 THEN day_winter0 - 1 ELSE day_winter0
         IN  [k \in {"XiaZhi", "DongZhi"} |->
                 IF k = "XiaZhi" THEN date(y, 6, day_summer)
                 ELSE date(y, 12, day_winter)]

build_jieqi_based_festivals(y) ==
    LET qingming == get_qingming_date(y)
        solstices == get_solstice_dates(y)
    IN  (IF qingming /= None THEN << <<"QingMingJie", qingming, "Solar Term">> >> ELSE <<>>)
        \o (IF "XiaZhi" \in DOMAIN solstices
            THEN << <<"XiaZhi", solstices["XiaZhi"], "Solar Term">> >> ELSE <<>>)
        \o (IF "DongZhi" \in DOMAIN solstices
            THEN << <<"DongZhi", solstices["DongZhi"], "Solar Term">> >> ELSE <<>>)

---------------------------------------------------------------------------
(* festival names and Python's order on them *)

\* The code points of the source's name for each pinyin name
CodePoints(n) ==
    CASE n = "ChunJie" -> <<26149, 33410>>
      [] n = "YuanXiaoJie" -> <<20803, 23477, 33410>>
      [] n = "ShangSiJie_LongTaiTou" -> <<19978, 24051, 33410, 47, 40857, 25260, 22836>>
      [] n = "DuanWuJie" -> <<31471, 21320, 33410>>
      [] n = "QiXiJie" -> <<19971, 22805, 33410>>
      [] n = "ZhongYuanJie" -> <<20013, 20803, 33410>>
      [] n = "ZhongQiuJie" -> <<20013, 31179, 33410>>
      [] n = "ChongYangJie" -> <<37325, 38451, 33410>>
      [] n = "XiaYuanJie" -> <<19979, 20803, 33410>>
      [] n = "LaBaJie" -> <<33098, 20843, 33410>>
      [] n = "XiaoNian" -> <<23567, 24180>>
      [] n = "ChuXi" -> <<38500, 22805>>
      [] n = "QingMingJie" -> <<28165, 26126, 33410>>
      [] n = "XiaZhi" -> <<22799, 33267>>
      [] n = "DongZhi" -> <<20908, 33267>>
      [] n = "YuanDan" -> <<20803, 26086>>
      [] n = "QingRenJie" -> <<24773, 20154, 33410>>
      [] n = "ZhiShuJie" -> <<26893, 26641, 33410>>
      [] n = "LaoDongJie" -> <<21171, 21160, 33410>>
      [] n = "QingNianJie" -> <<38738, 24180, 33410>>
      [] n = "ErTongJie" -> <<20799, 31461, 33410>>
      [] n = "JiaoShiJie" -> <<25945, 24072, 33410>>
      [] n = "MuQinJie" -> <<27597, 20146, 33410>>
      [] n = "FuQinJie" -> <<29238, 20146, 33410>>

\* n1 < n2 as Python strings
NameLess(n1, n2) == SeqLess(CodePoints(n1), CodePoints(n2))

---------------------------------------------------------------------------
(* the lunar converter and the lunar festivals *)

\* ZhDate(y, m, d).to_datetime().date(): the civil date, or ZhError when the
\* converter rejects the lunar date.  The converter is a function of the
\* lunar date: zh holds the lunar dates it accepts, each with the civil date
\* it converts to, and which those are is left open.
ZhDate(ly, m, d) ==
    IF <<ly, m, d>> \in DOMAIN zh THEN zh[<<ly, m, d>>] ELSE ZhError

lunar_to_solar(ly, m, d) == ZhDate(ly, m, d)

\* Variant: the twelfth month taken to have 29 days, without the probe
last_day_of_layue_fixed(ly) == 29

last_day_of_layue(ly) ==
    IF IsDate(ZhDate(ly, 12, 30)) THEN 30 ELSE 29

names_fixed ==
    << <<"ChunJie", 1, 1>>,
       <<"YuanXiaoJie", 1, 15>>,
       <<"ShangSiJie_LongTaiTou", 3, 3>>,
       <<"DuanWuJie", 5, 5>>,
       <<"QiXiJie", 7, 7>>,
       <<"ZhongYuanJie", 7, 15>>,
       <<"ZhongQiuJie", 8, 15>>,
       <<"ChongYangJie", 9, 9>>,
       <<"XiaYuanJie", 10, 15>>,
       <<"LaBaJie", 12, 8>>,
       <<"XiaoNian", 12, 23>> >>

\* The loop over names_fixed from entry i on: one item per accepted entry
RECURSIVE LunarFixedItems(_, _)
LunarFixedItems(ly, i) ==
    IF i > Len(names_fixed) THEN <<>>
    ELSE LET e == names_fixed[i]
             r == lunar_to_solar(ly, e[2], e[3])
         IN  (IF IsDate(r) THEN << <<e[1], r, "Lunar">> >> ELSE <<>>)
             \o LunarFixedItems(ly, i + 1)

\* The same loop with the try around it: the first rejected entry ends it
RECURSIVE LunarFixedItemsAbort(_, _)
LunarFixedItemsAbort(ly, i) ==
    IF i > Len(names_fixed) THEN <<>>
    ELSE LET e == names_fixed[i]
             r == lunar_to_solar(ly, e[2], e[3])
         IN  IF IsDate(r)
             THEN << <<e[1], r, "Lunar">> >> \o LunarFixedItemsAbort(ly, i + 1)
             ELSE <<>>

ChuXiItems(ly) ==
    LET last_d == last_day_of_layue(ly)
        r == lunar_to_solar(ly, 12, last_d)
    IN  IF IsDate(r) THEN << <<"ChuXi", r, "Lunar">> >> ELSE <<>>

build_lunar_festivals_abort(ly) ==
    LunarFixedItemsAbort(ly, 1) \o ChuXiItems(ly)

build_lunar_festivals_for_lunar_year(ly) ==
    LunarFixedItems(ly, 1) \o ChuXiItems(ly)

---------------------------------------------------------------------------
(* the Gregorian observances *)

\* [raised, items]: raised when a date() of the function raises ValueError
build_gregorian_festivals(y) ==
    LET fixed == << <<"YuanDan", date(y, 1, 1)>>,
                    <<"QingRenJie", date(y, 2, 14)>>,
                    <<"ZhiShuJie", date(y, 3, 12)>>,
                    <<"LaoDongJie", date(y, 5, 1)>>,
                    <<"QingNianJie", date(y, 5, 4)>>,
                    <<"ErTongJie", date(y, 6, 1)>>,
                    <<"JiaoShiJie", date(y, 9, 10)>> >>
        mothers == nth_weekday_of_month(y, 5, 6, 2)
        fathers == nth_weekday_of_month(y, 6, 6, 3)
        items == [i \in 1..Len(fixed) |-> <<fixed[i][1], fixed[i][2], "Gregorian">>]
                 \o << <<"MuQinJie", mothers, "Gregorian">>,
                       <<"FuQinJie", fathers, "Gregorian">> >>
    IN  [raised |-> \E i \in 1..Len(items) : ~IsDate(items[i][2]),
         items |-> items]

---------------------------------------------------------------------------
(* collect_all_events *)

\* start_date <= d <= end_date
InRange(s, e, d) == DateLE(s, d) /\ DateLE(d, e)

Keep(s, e, items) == SelectSeq(items, LAMBDA it : InRange(s, e, it[2]))

\* Variant: the lunar years from start_date.year on
lunar_years_late(s, e) == range(s[1], e[1] + 1 + 1)

\* range(lunar_year_start, lunar_year_end + 1)
lunar_years(s, e) == range(s[1] - 1, e[1] + 1 + 1)

\* Variant: the solar-term years up to end_date.year + 2 included
jieqi_years_inclusive(s, e) == range(s[1] - 1, e[1] + 2 + 1)

\* range(start_date.year - 1, end_date.year + 2)
jieqi_years(s, e) == range(s[1] - 1, e[1] + 2)

\* range(start_date.year, end_date.year + 1)
gregorian_years(s, e) == range(s[1], e[1] + 1)

\* The loops, from the i-th year on; results[i] is what the resolver
\* returned for the i-th year
RECURSIVE KeepLoop(_, _, _, _)
KeepLoop(s, e, results, i) ==
    IF i > Len(results) THEN <<>>
    ELSE Keep(s, e, results[i]) \o KeepLoop(s, e, results, i + 1)

\* Variant: no deduplication
dedup_none(events) == events

\* uniq: the first event of each (name, date), in the order of insertion
RECURSIVE DedupFrom(_, _, _)
DedupFrom(events, i, uniq) ==
    IF i > Len(events) THEN uniq
    ELSE LET ev == events[i]
             seen == \E j \in 1..Len(uniq) :
                        uniq[j][1] = ev[1] /\ uniq[j][2] = ev[2]
         IN  DedupFrom(events, i + 1, IF seen THEN uniq ELSE Append(uniq, ev))

dedup(events) == DedupFrom(events, 1, <<>>)

\* (x[1], x[0]) of a before that of b
KeyLess(a, b) ==
    \/ DateLess(a[2], b[2])
    \/ a[2] = b[2] /\ NameLess(a[1], b[1])

\* ev put into the sorted list after every element not greater than it
\* (those elements are a prefix of the list)
Insert(sorted, ev) ==
    LET p == Cardinality({ j \in 1..Len(sorted) : ~KeyLess(ev, sorted[j]) })
    IN  SubSeq(sorted, 1, p) \o <<ev>> \o SubSeq(sorted, p + 1, Len(sorted))

RECURSIVE SortFrom(_, _, _)
SortFrom(events, i, sorted) ==
    IF i > Len(events) THEN sorted
    ELSE SortFrom(events, i + 1, Insert(sorted, events[i]))

\* The same sort with the date alone as the key
InsertByDate(sorted, ev) ==
    LET p == Cardinality({ j \in 1..Len(sorted) : ~DateLess(ev[2], sorted[j][2]) })
    IN  SubSeq(sorted, 1, p) \o <<ev>> \o SubSeq(sorted, p + 1, Len(sorted))

RECURSIVE SortFromByDate(_, _, _)
SortFromByDate(events, i, sorted) ==
    IF i > Len(events) THEN sorted
    ELSE SortFromByDate(events, i + 1, InsertByDate(sorted, events[i]))

sort_by_date_only(events) == SortFromByDate(events, 1, <<>>)

\* events.sort(key=lambda x: (x[1], x[0])): a stable sort
sort_events(events) == SortFrom(events, 1, <<>>)

\* What the call does: the resolver calls in their order, what each lunar
\* call returned, whether an exception left the function, and the list
\* returned.
collect_all_events(s, e) ==
    LET ly == lunar_years(s, e)
        jy == jieqi_years(s, e)
        gy == gregorian_years(s, e)
        lunar == [i \in 1..Len(ly) |-> build_lunar_festivals_for_lunar_year(ly[i])]
        jieqi == [i \in 1..Len(jy) |-> build_jieqi_based_festivals(jy[i])]
        gregorian == [i \in 1..Len(gy) |-> build_gregorian_festivals(gy[i])]
        raised == \E i \in 1..Len(gy) : gregorian[i].raised
        concat == KeepLoop(s, e, lunar, 1)
                  \o KeepLoop(s, e, jieqi, 1)
                  \o KeepLoop(s, e, [i \in 1..Len(gy) |-> gregorian[i].items], 1)
    IN  [calls |-> [i \in 1..Len(ly) |-> <<"lunar", ly[i]>>]
                   \o [i \in 1..Len(jy) |-> <<"jieqi", jy[i]>>]
                   \o [i \in 1..Len(gy) |-> <<"gregorian", gy[i]>>],
         lunar_items |-> lunar,
         concat |-> concat,
         raised |-> raised,
         events |-> IF raised THEN <<>> ELSE sort_events(dedup(concat))]

---------------------------------------------------------------------------
(* build_ics *)

\* str(n) for n >= 0, as its decimal digits
RECURSIVE Digits(_)
Digits(n) == IF n < 10 THEN <<n>> ELSE Digits(n \div 10) \o <<n % 10>>

TwoDigits(n) == <<n \div 10, n % 10>>

\* d.strftime("%Y%m%d"); the year of every date of the model has four digits
yyyymmdd(d) == Digits(d[1]) \o TwoDigits(d[2]) \o TwoDigits(d[3])

\* per_date_counter.get(ds, 0)
CounterGet(counter, ds) == IF ds \in DOMAIN counter THEN counter[ds] ELSE 0

CounterPut(counter, ds, x) ==
    [k \in DOMAIN counter \cup {ds} |-> IF k = ds THEN x ELSE counter[k]]

\* The loop of build_ics from the i-th event on: one VEVENT per event
RECURSIVE IcsLoop(_, _, _, _)
IcsLoop(events, i, per_date_counter, blocks) ==
    IF i > Len(events) THEN blocks
    ELSE LET ev == events[i]
             ds == yyyymmdd(ev[2])
             x == CounterGet(per_date_counter, ds)
             uid == ds \o Digits(x)
         IN  IcsLoop(events, i + 1, CounterPut(per_date_counter, ds, x + 1),
                     Append(blocks, [uid |-> uid, summary |-> ev[1],
                                     dtstart |-> yyyymmdd(ev[2]),
                                     categories |-> ev[3]]))

\* Variant: the counter of the date is not incremented
RECURSIVE IcsLoopNoIncrement(_, _, _, _)
IcsLoopNoIncrement(events, i, per_date_counter, blocks) ==
    IF i > Len(events) THEN blocks
    ELSE LET ev == events[i]
             ds == yyyymmdd(ev[2])
             x == CounterGet(per_date_counter, ds)
             uid == ds \o Digits(x)
         IN  IcsLoopNoIncrement(events, i + 1, CounterPut(per_date_counter, ds, x),
                     Append(blocks, [uid |-> uid, summary |-> ev[1],
                                     dtstart |-> yyyymmdd(ev[2]),
                                     categories |-> ev[3]]))

build_ics_no_increment(events) == IcsLoopNoIncrement(events, 1, <<>>, <<>>)

build_ics(events) == IcsLoop(events, 1, <<>>, <<>>)

---------------------------------------------------------------------------
(* bounds of the model *)

\* The converter accepts at most this many lunar dates
MaxAccepted == 2

\* Lunar years the converter may accept dates of; it rejects every date of
\* the other lunar years
ZhYears == 2099..2100

\* Civil dates the converter may return
ZhDates == { <<2100, 2, 14>>, <<2101, 1, 1>> }

\* The (start_date, end_date) of a call of collect_all_events
Ranges == { << <<2100, 2, 14>>, <<2100, 6, 21>> >>,
            << <<2101, 1, 1>>, <<2101, 12, 31>> >> }

\* The lunar dates the program asks the converter for
ZhKeys ==
    { <<ly, names_fixed[i][2], names_fixed[i][3]>> :
          ly \in ZhYears, i \in 1..Len(names_fixed) }
    \cup { <<ly, 12, d>> : ly \in ZhYears, d \in {29, 30} }

\* The subsets of S of at most k elements
RECURSIVE SubsetsUpTo(_, _)
SubsetsUpTo(S, k) ==
    IF k = 0 THEN {{}}
    ELSE LET P == SubsetsUpTo(S, k - 1)
         IN  P \cup { p \cup {x} : p \in P, x \in S }

\* The converters of the model
Converters == UNION { [K -> ZhDates] : K \in SubsetsUpTo(ZhKeys, MaxAccepted) }

Idle == <<>>

---------------------------------------------------------------------------
(* Spec: one run of collect_all_events and build_ics *)

Init ==
    /\ pc = "start"
    /\ \E r \in Ranges : start_date = r[1] /\ end_date = r[2]
    /\ zh \in Converters
    /\ run = Idle
    /\ ics = Idle
    /\ year = Idle /\ term_out = Idle /\ nth_in = Idle /\ nth_out = Idle

\* events = collect_all_events(start_date, end_date)
Collect ==
    /\ pc = "start"
    /\ run' = collect_all_events(start_date, end_date)
    /\ pc' = IF run'.raised THEN "raised" ELSE "collected"
    /\ UNCHANGED <<year, term_out, nth_in, nth_out, start_date, end_date, zh, ics>>

\* ics_text = build_ics(events)
BuildIcs ==
    /\ pc = "collected"
    /\ ics' = build_ics(run.events)
    /\ pc' = "built"
    /\ UNCHANGED <<year, term_out, nth_in, nth_out, start_date, end_date, zh, run>>

Next == Collect \/ BuildIcs

Spec == Init /\ [][Next]_vars

---------------------------------------------------------------------------
(* SpecTerm: the solar-term functions applied to one year *)

TermYearLo == 1995
TermYearHi == 2105

InitTerm ==
    /\ pc = "term_start"
    /\ year \in TermYearLo..TermYearHi
    /\ term_out = Idle
    /\ nth_in = Idle /\ nth_out = Idle
    /\ start_date = Idle /\ end_date = Idle /\ zh = Idle /\ run = Idle /\ ics = Idle

Jieqi ==
    /\ pc = "term_start"
    /\ term_out' = [qingming |-> get_qingming_date(year),
                    solstices |-> get_solstice_dates(year),
                    items |-> build_jieqi_based_festivals(year)]
    /\ pc' = "term_done"
    /\ UNCHANGED <<year, nth_in, nth_out, start_date, end_date, zh, run, ics>>

NextTerm == Jieqi

SpecTerm == InitTerm /\ [][NextTerm]_vars

---------------------------------------------------------------------------
(* SpecNth: nth_weekday_of_month applied to one (year, month, weekday, n) *)

NthYearLo == 2020
NthYearHi == 2030
MaxN == 5

InitNth ==
    /\ pc = "nth_start"
    /\ nth_in \in [year : NthYearLo..NthYearHi, month : 1..12,
                   weekday : 0..6, n : 1..MaxN]
    /\ nth_out = Idle
    /\ year = Idle /\ term_out = Idle
    /\ start_date = Idle /\ end_date = Idle /\ zh = Idle /\ run = Idle /\ ics = Idle

NthWeekday ==
    /\ pc = "nth_start"
    /\ nth_out' = nth_weekday_of_month(nth_in.year, nth_in.month,
                                       nth_in.weekday, nth_in.n)
    /\ pc' = "nth_done"
    /\ UNCHANGED <<year, term_out, nth_in, start_date, end_date, zh, run, ics>>

NextNth == NthWeekday

SpecNth == InitNth /\ [][NextNth]_vars

---------------------------------------------------------------------------
(* the solar-term window and the 2021 correction *)

\* C4: the solar-term functions give a date exactly for the years 2001..2100.
\* Outside the window get_qingming_date returns None, get_solstice_dates
\* the empty mapping and build_jieqi_based_festivals no event; inside it
\* (both ends included) the three terms are produced, each a date that
\* exists, of the year asked for, in April, June and December.
C4_SolarTermWindow ==
    pc = "term_done" =>
        IF 2001 <= year /\ year <= 2100
        THEN /\ IsDate(term_out.qingming)
             /\ DOMAIN term_out.solstices = {"XiaZhi", "DongZhi"}
             /\ IsDate(term_out.solstices["XiaZhi"])
             /\ IsDate(term_out.solstices["DongZhi"])
             /\ Len(term_out.items) = 3
             /\ term_out.items[1] = <<"QingMingJie", term_out.qingming, "Solar Term">>
             /\ term_out.items[2] = <<"XiaZhi", term_out.solstices["XiaZhi"], "Solar Term">>
             /\ term_out.items[3] = <<"DongZhi", term_out.solstices["DongZhi"], "Solar Term">>
             /\ term_out.qingming[1] = year /\ term_out.qingming[2] = 4
             /\ term_out.solstices["XiaZhi"][1] = year
             /\ term_out.solstices["XiaZhi"][2] = 6
             /\ term_out.solstices["DongZhi"][1] = year
             /\ term_out.solstices["DongZhi"][2] = 12
        ELSE /\ term_out.qingming = None
             /\ DOMAIN term_out.solstices = {}
             /\ term_out.items = <<>>

\* The year after the window has been asked for and gave nothing
C4_Witness ==
    /\ pc = "term_done"
    /\ year = 2101
    /\ term_out.qingming = None
    /\ term_out.items = <<>>

\* C5: the winter solstice of 2021 is one day before the value of the formula;
\* every other day of the window (the winter solstice of the other years,
\* Qingming and the summer solstice of every year, 2021 included) is the
\* value of the formula.
C5_WinterCorrection ==
    (pc = "term_done" /\ 2001 <= year /\ year <= 2100) =>
        /\ term_out.solstices["DongZhi"][3] =
               IF year = 2021
               THEN _century21_solar_term_day(year, C_WINTER) - 1
               ELSE _century21_solar_term_day(year, C_WINTER)
        /\ term_out.solstices["XiaZhi"][3] = _century21_solar_term_day(year, C_SUMMER)
        /\ term_out.qingming[3] = _century21_solar_term_day(year, C_QINGMING)

\* 2021: the formula gives 22 for the winter solstice, the function the 21st
C5_Witness ==
    /\ pc = "term_done"
    /\ year = 2021
    /\ _century21_solar_term_day(2021, C_WINTER) = 22
    /\ term_out.solstices["DongZhi"] = <<2021, 12, 21>>
    /\ term_out.solstices["XiaZhi"] = <<2021, 6, 21>>

---------------------------------------------------------------------------
(* the n-th weekday of a month *)

\* The days of the month of the call that fall on the weekday asked for
TargetDays == { d \in 1..DaysInMonth(nth_in.year, nth_in.month) :
                  weekday(<<nth_in.year, nth_in.month, d>>) = nth_in.weekday }

\* C6: nth_weekday_of_month returns the n-th day of the month that falls on
\* the weekday when the month has one, and raises when the day it computes,
\* 1 + ((weekday - weekday of the 1st + 7) mod 7) + (n-1)*7, is past the end
\* of the month; what it returns is a date of the month asked for.  The 2nd
\* Sunday of May and the 3rd Sunday of June exist in every year.
C6_NthWeekday ==
    pc = "nth_done" =>
        LET y == nth_in.year
            m == nth_in.month
            first_wd == weekday(<<y, m, 1>>)
            day == 1 + ((nth_in.weekday - first_wd + 7) % 7) + (nth_in.n - 1) * 7
        IN  /\ IsDate(nth_out) <=> Cardinality(TargetDays) >= nth_in.n
            /\ IsDate(nth_out) <=> day <= DaysInMonth(y, m)
            /\ IsDate(nth_out) =>
                   /\ nth_out[1] = y /\ nth_out[2] = m
                   /\ nth_out[3] \in TargetDays
                   /\ Cardinality({ d \in TargetDays : d <= nth_out[3] }) = nth_in.n
            /\ (m = 5 /\ nth_in.weekday = 6 /\ nth_in.n = 2) => IsDate(nth_out)
            /\ (m = 6 /\ nth_in.weekday = 6 /\ nth_in.n = 3) => IsDate(nth_out)

\* 2025, when May 1 is a Thursday: the 2nd Sunday of May is May 11
C6_Witness ==
    /\ pc = "nth_done"
    /\ nth_in = [year |-> 2025, month |-> 5, weekday |-> 6, n |-> 2]
    /\ weekday(<<2025, 5, 1>>) = 3
    /\ nth_out = <<2025, 5, 11>>

---------------------------------------------------------------------------
(* the list collect_all_events returns *)

\* collect_all_events has returned and build_ics is not yet called
Collected == pc = "collected"

SameKey(a, b) == a[1] = b[1] /\ a[2] = b[2]

\* C1: the returned list holds no two events of the same (name, date); every
\* (name, date) of the concatenation (lunar festivals, then solar terms,
\* then Gregorian observances) survives exactly once, with the category of
\* its first occurrence there.
C1_Deduplicated ==
    Collected =>
        LET events == run.events
            concat == run.concat
        IN  /\ \A i, j \in 1..Len(events) :
                   SameKey(events[i], events[j]) => i = j
            /\ \A k \in 1..Len(concat) :
                   \E i \in 1..Len(events) : SameKey(events[i], concat[k])
            /\ \A i \in 1..Len(events) :
                   \E k \in 1..Len(concat) :
                       /\ SameKey(concat[k], events[i])
                       /\ \A h \in 1..(k - 1) : ~SameKey(concat[h], events[i])
                       /\ events[i][3] = concat[k][3]

\* Two resolver outputs carried the same (name, date) and one event is left
C1_Witness ==
    /\ Collected
    /\ \E h, k \in 1..Len(run.concat) :
           h < k /\ SameKey(run.concat[h], run.concat[k])
    /\ Len(run.events) < Len(run.concat)

\* C2: the returned list is sorted by date and, among events of one date, by
\* name: each event's (date, name) is strictly below that of the next.
C2_Sorted ==
    Collected =>
        \A i \in 1..(Len(run.events) - 1) :
            LET a == run.events[i]
                b == run.events[i + 1]
            IN  \/ DateLess(a[2], b[2])
                \/ a[2] = b[2] /\ SeqLess(CodePoints(a[1]), CodePoints(b[1]))

\* Two events of one date were collected in the other order of their names
C2_Witness ==
    /\ Collected
    /\ \E h, k \in 1..Len(run.concat) :
           /\ h < k
           /\ run.concat[h][2] = run.concat[k][2]
           /\ NameLess(run.concat[k][1], run.concat[h][1])
    /\ \E i \in 1..(Len(run.events) - 1) : run.events[i][2] = run.events[i + 1][2]

\* C3: the k-th event of a date (k from 0, in the order of the list) gets the
\* identifier yyyymmdd of the date followed by k, and no two events of the
\* run get the same identifier.
C3_Identifiers ==
    pc = "built" =>
        /\ Len(ics) = Len(run.events)
        /\ \A i \in 1..Len(ics) :
               LET k == Cardinality({ j \in 1..(i - 1) :
                                        run.events[j][2] = run.events[i][2] })
               IN  ics[i].uid = yyyymmdd(run.events[i][2]) \o Digits(k)
        /\ \A i, j \in 1..Len(ics) : ics[i].uid = ics[j].uid => i = j

\* Three events on 2100-02-14 got 210002140, 210002141 and 210002142
C3_Witness ==
    /\ pc = "built"
    /\ \E i \in 1..Len(ics) : ics[i].uid = <<2, 1, 0, 0, 0, 2, 1, 4, 0>>
    /\ \E i \in 1..Len(ics) : ics[i].uid = <<2, 1, 0, 0, 0, 2, 1, 4, 1>>
    /\ \E i \in 1..Len(ics) : ics[i].uid = <<2, 1, 0, 0, 0, 2, 1, 4, 2>>

---------------------------------------------------------------------------
(* the lunar festivals of one lunar year *)

Accepted(ly, m, d) == <<ly, m, d>> \in DOMAIN zh

\* The entries of the table the converter accepts for ly, in table order
AcceptedEntries(ly) ==
    SelectSeq(names_fixed, LAMBDA e : Accepted(ly, e[2], e[3]))

\* The events of those entries
FixedEvents(ly) ==
    [j \in 1..Len(AcceptedEntries(ly)) |->
        LET e == AcceptedEntries(ly)[j]
        IN  <<e[1], zh[<<ly, e[2], e[3]>>], "Lunar">>]

NotChuXi(it) == it[1] /= "ChuXi"
IsChuXi(it) == it[1] = "ChuXi"

\* C7: for each lunar year asked for, the events of the table entries are
\* those of the accepted entries, one each, in table order, whatever the
\* converter rejected before or after them; the call returns its list.
C7_LunarEntries ==
    Collected =>
        \A i \in 1..Len(run.lunar_items) :
            LET ly == lunar_years(start_date, end_date)[i]
                items == run.lunar_items[i]
            IN  /\ SelectSeq(items, NotChuXi) = FixedEvents(ly)
                /\ \A j \in 1..Len(names_fixed) :
                       Cardinality({ h \in 1..Len(items) :
                                       items[h][1] = names_fixed[j][1] })
                       = IF Accepted(ly, names_fixed[j][2], names_fixed[j][3])
                         THEN 1 ELSE 0

\* A year whose first entry was rejected and two later entries accepted
C7_Witness ==
    /\ Collected
    /\ \E i \in 1..Len(run.lunar_items) :
           LET ly == lunar_years(start_date, end_date)[i]
           IN  /\ ~Accepted(ly, 1, 1)
               /\ Accepted(ly, 1, 15)
               /\ ~Accepted(ly, 3, 3)
               /\ Accepted(ly, 5, 5)
               /\ Len(run.lunar_items[i]) = 2
               /\ run.lunar_items[i][1][1] = "YuanXiaoJie"
               /\ run.lunar_items[i][2][1] = "DuanWuJie"

\* C8: the year-end eve of a lunar year is the conversion of day 30 of the
\* twelfth month when the converter accepts day 30, and that of day 29
\* otherwise; when that conversion fails the year has no year-end eve and
\* its other festivals are as without it.
C8_YearEndEve ==
    Collected =>
        \A i \in 1..Len(run.lunar_items) :
            LET ly == lunar_years(start_date, end_date)[i]
                items == run.lunar_items[i]
                day == IF Accepted(ly, 12, 30) THEN 30 ELSE 29
            IN  /\ SelectSeq(items, IsChuXi) =
                       IF Accepted(ly, 12, day)
                       THEN << <<"ChuXi", zh[<<ly, 12, day>>], "Lunar">> >>
                       ELSE <<>>
                /\ ~Accepted(ly, 12, day) => items = FixedEvents(ly)
                /\ Accepted(ly, 12, day) =>
                       items = Append(FixedEvents(ly),
                                      <<"ChuXi", zh[<<ly, 12, day>>], "Lunar">>)

\* Days 29 and 30 both convert, to different dates: the eve is day 30's
C8_Witness ==
    /\ Collected
    /\ \E i \in 1..Len(run.lunar_items) :
           LET ly == lunar_years(start_date, end_date)[i]
           IN  /\ Accepted(ly, 12, 30) /\ Accepted(ly, 12, 29)
               /\ zh[<<ly, 12, 30>>] /= zh[<<ly, 12, 29>>]
               /\ run.lunar_items[i] = << <<"ChuXi", zh[<<ly, 12, 30>>], "Lunar">> >>

---------------------------------------------------------------------------
(* the years collect_all_events asks the resolvers for *)

\* The calls <<resolver, y>> for y = lo, lo + 1, ..., hi
CallsOf(resolver, lo, hi) ==
    [i \in 1..(IF hi >= lo THEN hi - lo + 1 ELSE 0) |-> <<resolver, lo + i - 1>>]

\* C9 as stated: the solar-term resolver is called for every year from
\* start_date.year - 1 to end_date.year + 2, after the lunar resolver for
\* start_date.year - 1 .. end_date.year + 1 and before the Gregorian one for
\* start_date.year .. end_date.year.
C9_Original ==
    Collected =>
        run.calls = CallsOf("lunar", start_date[1] - 1, end_date[1] + 1)
                    \o CallsOf("jieqi", start_date[1] - 1, end_date[1] + 2)
                    \o CallsOf("gregorian", start_date[1], end_date[1])

\* C9, amended: the solar-term resolver is called for every year from
\* start_date.year - 1 to end_date.year + 1 (range() leaves its upper end
\* out), after the lunar resolver for the same years and before the
\* Gregorian one for start_date.year .. end_date.year.
C9_ScannedYears ==
    Collected =>
        run.calls = CallsOf("lunar", start_date[1] - 1, end_date[1] + 1)
                    \o CallsOf("jieqi", start_date[1] - 1, end_date[1] + 1)
                    \o CallsOf("gregorian", start_date[1], end_date[1])

\* The year 2100 was collected: the last solar-term call was for 2101
C9_Witness ==
    /\ Collected
    /\ start_date[1] = 2100 /\ end_date[1] = 2100
    /\ Len(run.calls) = 7
    /\ run.calls[6] = <<"jieqi", 2101>>
    /\ run.calls[7] = <<"gregorian", 2100>>

---------------------------------------------------------------------------
(* the range *)

\* Years around every year of the model, scanned or not
AllYears == 2097..2103

Pairs(items) == { <<items[i][1], items[i][2]>> : i \in 1..Len(items) }

\* Every (name, date) a resolver produces for a year of AllYears
Produced ==
    UNION { Pairs(build_lunar_festivals_for_lunar_year(y))
            \cup Pairs(build_jieqi_based_festivals(y))
            \cup Pairs(build_gregorian_festivals(y).items) : y \in AllYears }

\* The converter puts the festivals of lunar year L in civil year L or L + 1
ZhWithinTwoYears ==
    \A k \in DOMAIN zh : zh[k][1] \in {k[1], k[1] + 1}

\* C10: when the converter puts every festival of lunar year L in civil year
\* L or L + 1, the (name, date) pairs returned are exactly the pairs the
\* three resolvers produce, for whatever year, with
\* start_date <= date <= end_date.
C10_ExactlyInRange ==
    (Collected /\ ZhWithinTwoYears) =>
        Pairs(run.events) =
            { p \in Produced : DateLE(start_date, p[2]) /\ DateLE(p[2], end_date) }

\* A festival of the lunar year before the range fell on the first day of
\* the range and was returned, one of an accepted date past the end was not
C10_Witness ==
    /\ Collected
    /\ ZhWithinTwoYears
    /\ start_date = <<2100, 2, 14>>
    /\ Accepted(2099, 1, 1) /\ zh[<<2099, 1, 1>>] = <<2100, 2, 14>>
    /\ Accepted(2100, 12, 8) /\ zh[<<2100, 12, 8>>] = <<2101, 1, 1>>
    /\ <<"ChunJie", <<2100, 2, 14>>>> \in Pairs(run.events)
    /\ <<"LaBaJie", <<2101, 1, 1>>>> \notin Pairs(run.events)

====
